---- MODULE Spec2Model ----
(***************************************************************************)
(* Model of app.py, the Brickz-AI progress tracker: a Streamlit script     *)
(* that is re-executed top to bottom on every user event, one analysis     *)
(* call to a hosted vision model, and the line parser of its reply.        *)
(*                                                                         *)
(* Texts are sequences of symbols.  Each of the four field keywords of     *)
(* the reply format is one symbol, the line break is one symbol, and the   *)
(* remaining symbols are single characters.  None is the empty sequence    *)
(* and a present value x is the one-element sequence <<x>>.                *)
(***************************************************************************)
EXTENDS Integers, Sequences, FiniteSets, TLC

VARIABLES
    ref_files,         \* which of the three REFERENCE_IMAGES files can be opened
    uploads,           \* the file_uploader widgets ref1, ref2, ref3: filled or not
    camera_photo,      \* the value of the st.camera_input widget
    current_image,     \* st.session_state.current_image
    progress_result,   \* st.session_state.progress_result
    reference_images,  \* the script's reference_images in the latest run
    call,              \* the arguments of analyze_progress_with_gpt4 in the latest run
    sent,              \* the requests issued by that invocation
    result_text,       \* the reply text read at line 166
    result,            \* what the invocation returned
    error_shown,       \* st.error of line 197 was rendered in the latest run
    analysed_image,    \* history: the image progress_result was computed from
    last               \* history: the event that produced this state

vars == <<ref_files, uploads, camera_photo, current_image, progress_result,
          reference_images, call, sent, result_text, result, error_shown,
          analysed_image, last>>

----------------------------------------------------------------------------
(* Bounds *)

MaxTextLen == 5

MaxValueLen == 2

MaxPhotos == 2

----------------------------------------------------------------------------
(* Texts *)

None == <<>>

Some(x) == <<x>>

PROGRESS == "PROGRESS:"

COMPLETED_PARTS == "COMPLETED_PARTS:"

MISSING_PARTS == "MISSING_PARTS:"

NOTES == "NOTES:"

NL == "\n"

Keywords == {PROGRESS, COMPLETED_PARTS, MISSING_PARTS, NOTES}

Digits == {"1", "9"}

Whitespace == {" "}

Alphabet == Keywords \cup Digits \cup Whitespace \cup {NL, "%", "-", "a"}

SeqsUpTo(S, n) == UNION {[1..k -> S] : k \in 0..n}

\* str.split('\n'): the pieces between line breaks, at least one piece
RECURSIVE SplitFrom(_, _, _)
SplitFrom(text, i, piece) ==
    IF i > Len(text) THEN <<piece>>
    ELSE IF text[i] = NL THEN <<piece>> \o SplitFrom(text, i + 1, <<>>)
    ELSE SplitFrom(text, i + 1, Append(piece, text[i]))

split(text) == SplitFrom(text, 1, <<>>)

startswith(line, prefix) == Len(line) >= 1 /\ line[1] = prefix

\* str.replace(old, ''): every occurrence of old is removed
remove(s, old) == SelectSeq(s, LAMBDA c : c # old)

RECURSIVE lstrip(_)
lstrip(s) ==
    IF s # <<>> /\ Head(s) \in Whitespace THEN lstrip(Tail(s)) ELSE s

RECURSIVE rstrip(_)
rstrip(s) ==
    IF s # <<>> /\ s[Len(s)] \in Whitespace
    THEN rstrip(SubSeq(s, 1, Len(s) - 1)) ELSE s

strip(s) == rstrip(lstrip(s))

DigitValue(c) == IF c = "1" THEN 1 ELSE 9

RECURSIVE DigitsValue(_)
DigitsValue(s) ==
    IF s = <<>> THEN 0
    ELSE 10 * DigitsValue(SubSeq(s, 1, Len(s) - 1)) + DigitValue(s[Len(s)])

AllDigits(s) == s # <<>> /\ \A i \in 1..Len(s) : s[i] \in Digits

\* int(str) on the texts of Alphabet: surrounding whitespace is allowed, then
\* an optional minus sign and digits; anything else is a ValueError
\* (ok = FALSE).  Alphabet has no "+" and no "_", which int also accepts.
int(s) ==
    LET t == strip(s)
        neg == t # <<>> /\ Head(t) = "-"
        d == IF neg THEN Tail(t) ELSE t
    IN IF AllDigits(d)
       THEN [ok |-> TRUE, value |-> IF neg THEN 0 - DigitsValue(d) ELSE DigitsValue(d)]
       ELSE [ok |-> FALSE, value |-> 0]

\* try: int(progress_str) except: 0
ProgressValue(progress_str) ==
    IF int(progress_str).ok THEN int(progress_str).value ELSE 0

ProgressOfLine(line) == ProgressValue(remove(strip(remove(line, PROGRESS)), "%"))

TextOfLine(line, prefix) == strip(remove(line, prefix))

\* the values the loop starts from
InitialFields ==
    [progress |-> 0, completed |-> <<>>, missing |-> <<>>, notes |-> <<>>]

\* one iteration of the loop over the lines
ParseLine(acc, line) ==
    IF startswith(line, PROGRESS)
        THEN [acc EXCEPT !.progress = ProgressOfLine(line)]
    ELSE IF startswith(line, COMPLETED_PARTS)
        THEN [acc EXCEPT !.completed = TextOfLine(line, COMPLETED_PARTS)]
    ELSE IF startswith(line, MISSING_PARTS)
        THEN [acc EXCEPT !.missing = TextOfLine(line, MISSING_PARTS)]
    ELSE IF startswith(line, NOTES)
        THEN [acc EXCEPT !.notes = TextOfLine(line, NOTES)]
    ELSE acc

RECURSIVE ParseLinesBackwards(_, _)
ParseLinesBackwards(acc, lines) ==
    IF lines = <<>> THEN acc
    ELSE ParseLinesBackwards(ParseLine(acc, lines[Len(lines)]),
                             SubSeq(lines, 1, Len(lines) - 1))

\* the loop: the lines in order, each overwriting what an earlier one set
RECURSIVE ParseLines(_, _)
ParseLines(acc, lines) ==
    IF lines = <<>> THEN acc
    ELSE ParseLines(ParseLine(acc, Head(lines)), Tail(lines))

MakeResult(f, raw) ==
    [progress |-> f.progress, completed |-> f.completed, missing |-> f.missing,
     notes |-> f.notes, raw_response |-> raw]

ParseResponseStripped(text) ==
    MakeResult(ParseLines(InitialFields, split(text)), strip(text))

\* from the reply text to the returned dict
ParseResponse(text) ==
    MakeResult(ParseLines(InitialFields, split(text)), text)

----------------------------------------------------------------------------
(* Images and the request *)

Image(src, n) == [src |-> src, n |-> n]

Photos == {Image("camera", p) : p \in 1..MaxPhotos}

Slots == 1..3

\* Image.open on REFERENCE_IMAGES[i] and on the uploader of slot i
FileImage(i) == Image("file", i)

UploadImage(i) == Image("upload", i)

\* image.save(format="JPEG") and base64.b64encode of the bytes
encode_image_to_base64(image) == [jpeg_b64 |-> image]

TextPart(text) == [type |-> "text", text |-> text, url |-> <<>>, detail |-> ""]

ImagePart(b64) ==
    [type |-> "image_url", text |-> <<"", 0>>,
     url |-> <<"data:image/jpeg;base64,", b64>>, detail |-> "high"]

InstructionText == <<"You are analyzing LEGO building progress. ...", 0>>

ReferenceLabel(i) == <<"\n\nReference Image {i}:", i>>

CurrentLabel == <<"\n\nUser's Current Progress Image:", 0>>

RECURSIVE LoadFromSkipping(_, _, _)
LoadFromSkipping(files, i, images) ==
    IF i > 3 THEN Some(images)
    ELSE IF files[i] THEN LoadFromSkipping(files, i + 1, Append(images, FileImage(i)))
    ELSE LoadFromSkipping(files, i + 1, images)

\* the loop of load_reference_images from path i on
RECURSIVE LoadFrom(_, _, _)
LoadFrom(files, i, images) ==
    IF i > 3 THEN Some(images)
    ELSE IF files[i] THEN LoadFrom(files, i + 1, Append(images, FileImage(i)))
    ELSE None

load_reference_images(files) == LoadFrom(files, 1, <<>>)

\* bool(reference_images): None and the empty list are false
Truthy(refs) == refs # None /\ refs[1] # <<>>

\* reference_images after the upload fallback
ReferenceImages(files, ups) ==
    LET loaded == load_reference_images(files)
    IN IF Truthy(loaded) THEN loaded
       ELSE IF ups[1] /\ ups[2] /\ ups[3]
            THEN Some(<<UploadImage(1), UploadImage(2), UploadImage(3)>>)
            ELSE loaded

RECURSIVE AddReferencesImageFirst(_, _, _)
AddReferencesImageFirst(content, refs, i) ==
    IF i > Len(refs) THEN content
    ELSE AddReferencesImageFirst(
             content \o <<ImagePart(encode_image_to_base64(refs[i])),
                          TextPart(ReferenceLabel(i))>>,
             refs, i + 1)

\* for i, ref_img in enumerate(reference_images, 1): two appends each
RECURSIVE AddReferences(_, _, _)
AddReferences(content, refs, i) ==
    IF i > Len(refs) THEN content
    ELSE AddReferences(
             content \o <<TextPart(ReferenceLabel(i)),
                          ImagePart(encode_image_to_base64(refs[i]))>>,
             refs, i + 1)

\* content as passed to client.chat.completions.create
BuildContent(refs, current_img) ==
    AddReferences(<<TextPart(InstructionText)>>, refs, 1)
        \o <<TextPart(CurrentLabel),
             ImagePart(encode_image_to_base64(current_img))>>

Request(content) ==
    [model |-> "gpt-4o-mini", role |-> "user", content |-> content, max_tokens |-> 500]

----------------------------------------------------------------------------
(* The analysis call *)

FullReply ==
    <<PROGRESS, " ", "1", "9", "%", NL, COMPLETED_PARTS, " ", "a", NL,
      MISSING_PARTS, " ", "a", NL, NOTES, " ", "a">>

\* the reply texts of the session model
UIReplies ==
    {<<>>, FullReply, <<PROGRESS, "-", "1">>, <<PROGRESS, "1", "1", "1", "%">>,
     <<"a", NL, NOTES, "a", NOTES>>}

FailureKinds == {"encode_error", "api_error", "bad_response"}

\* what can happen inside the try block:
\*   encode_error  OpenAI(...) or an image.save raises before the request
\*   api_error     the request is issued and raises (transport, authentication)
\*   bad_response  a response arrives whose choices[0].message.content is no text
\*   reply         the response carries a text
Outcomes ==
    {[kind |-> k, text |-> <<>>] : k \in FailureKinds}
        \cup {[kind |-> "reply", text |-> t] : t \in UIReplies}

analyze_progress_with_gpt4(refs, current_img, outcome) ==
    LET request == Request(BuildContent(refs, current_img))
    IN IF outcome.kind = "encode_error"
       THEN [sent |-> <<>>, result_text |-> None, returned |-> None, error |-> TRUE]
       ELSE IF outcome.kind \in {"api_error", "bad_response"}
       THEN [sent |-> <<request>>, result_text |-> None, returned |-> None,
             error |-> TRUE]
       ELSE [sent |-> <<request>>, result_text |-> Some(outcome.text),
             returned |-> Some(ParseResponse(outcome.text)), error |-> FALSE]

----------------------------------------------------------------------------
(* One execution of the script *)

\* if camera_photo: st.session_state.current_image = Image.open(camera_photo)
Capture(cam, cur) == IF cam # None THEN cam ELSE cur

StoreResultAlways(old, returned) == returned

\* if result: st.session_state.progress_result = result
StoreResult(old, returned) == IF returned # None THEN returned ELSE old

\* st.progress raises for a value outside [0.0, 1.0]; the rest of the script,
\* the sidebar included, is then not executed
DisplayRaises(cur, res) ==
    cur # None /\ res # None /\ res[1].progress \notin 0..100

AnalyzeOffered == current_image # None /\ Truthy(reference_images)

TakeNewOffered == current_image # None

ResultDisplayed == current_image # None /\ progress_result # None

SidebarRendered == ~DisplayRaises(current_image, progress_result)

UploadersRendered == ~Truthy(load_reference_images(ref_files))

\* A run with no button pressed, or the run that follows st.rerun()
PlainRun(cam, ups, cur, res, img, event) ==
    /\ camera_photo' = cam
    /\ uploads' = ups
    /\ reference_images' = ReferenceImages(ref_files, ups)
    /\ current_image' = Capture(cam, cur)
    /\ progress_result' = res
    /\ analysed_image' = img
    /\ call' = None
    /\ sent' = <<>>
    /\ result_text' = None
    /\ result' = None
    /\ error_shown' = FALSE
    /\ last' = [op |-> event, outcome |-> ""]
    /\ UNCHANGED ref_files

\* The run in which the Analyze button returns True
AnalyzeRun(outcome) ==
    LET refs == ReferenceImages(ref_files, uploads)
        cur == Capture(camera_photo, current_image)
        out == analyze_progress_with_gpt4(refs[1], cur[1], outcome)
    IN /\ cur # None
       /\ Truthy(refs)
       /\ reference_images' = refs
       /\ current_image' = cur
       /\ call' = Some([reference_images |-> refs[1], current_img |-> cur[1]])
       /\ sent' = out.sent
       /\ result_text' = out.result_text
       /\ result' = out.returned
       /\ error_shown' = out.error
       /\ progress_result' = StoreResult(progress_result, out.returned)
       /\ analysed_image' = IF out.returned # None THEN cur ELSE analysed_image
       /\ last' = [op |-> "analyze", outcome |-> outcome.kind]
       /\ UNCHANGED <<ref_files, uploads, camera_photo>>

----------------------------------------------------------------------------
(* User events *)

TakePhoto(p) ==
    /\ camera_photo = None
    /\ PlainRun(Some(p), uploads, current_image, progress_result, analysed_image,
                "take_photo")

ClearPhoto ==
    /\ camera_photo # None
    /\ PlainRun(None, uploads, current_image, progress_result, analysed_image,
                "clear_photo")

UploadReference(i) ==
    /\ UploadersRendered
    /\ ~uploads[i]
    /\ PlainRun(camera_photo, [uploads EXCEPT ![i] = TRUE], current_image,
                progress_result, analysed_image, "upload")

RemoveReference(i) ==
    /\ UploadersRendered
    /\ uploads[i]
    /\ PlainRun(camera_photo, [uploads EXCEPT ![i] = FALSE], current_image,
                progress_result, analysed_image, "remove_upload")

Analyze(outcome) ==
    /\ AnalyzeOffered
    /\ AnalyzeRun(outcome)

\* current_image = None; progress_result = None; st.rerun()
TakeNewPhoto ==
    /\ TakeNewOffered
    /\ PlainRun(camera_photo, uploads, None, None, None, "take_new")

ResetEverything ==
    /\ SidebarRendered
    /\ PlainRun(camera_photo, uploads, None, None, None, "reset")

Init ==
    /\ ref_files \in [Slots -> BOOLEAN]
    /\ uploads = [i \in Slots |-> FALSE]
    /\ camera_photo = None
    /\ current_image = None
    /\ progress_result = None
    /\ reference_images = ReferenceImages(ref_files, uploads)
    /\ call = None
    /\ sent = <<>>
    /\ result_text = None
    /\ result = None
    /\ error_shown = FALSE
    /\ analysed_image = None
    /\ last = [op |-> "init", outcome |-> ""]

Next ==
    \/ \E p \in Photos : TakePhoto(p)
    \/ ClearPhoto
    \/ \E i \in Slots : UploadReference(i)
    \/ \E i \in Slots : RemoveReference(i)
    \/ \E outcome \in Outcomes : Analyze(outcome)
    \/ TakeNewPhoto
    \/ ResetEverything

Spec == Init /\ [][Next]_vars

----------------------------------------------------------------------------
(* The parser alone, over every reply text up to a length *)

\* a session that has not analysed anything, with a reply text in hand
Idle ==
    /\ ref_files = [i \in Slots |-> TRUE]
    /\ uploads = [i \in Slots |-> FALSE]
    /\ camera_photo = None
    /\ current_image = None
    /\ progress_result = None
    /\ reference_images = ReferenceImages(ref_files, uploads)
    /\ call = None
    /\ sent = <<>>
    /\ error_shown = FALSE
    /\ analysed_image = None
    /\ result = None
    /\ last = [op |-> "init", outcome |-> ""]

\* every text of at most MaxTextLen symbols
InitParse ==
    /\ Idle
    /\ \E k \in 0..MaxTextLen : \E t \in [1..k -> Alphabet] : result_text = Some(t)

\* lines 168-194 applied to result_text
ApplyParse ==
    /\ last.op = "init"
    /\ result_text # None
    /\ result' = Some(ParseResponse(result_text[1]))
    /\ last' = [op |-> "parse", outcome |-> "reply"]
    /\ UNCHANGED <<ref_files, uploads, camera_photo, current_image, progress_result,
                   reference_images, call, sent, result_text, error_shown,
                   analysed_image>>

NextParse == ApplyParse

SpecParse == InitParse /\ [][NextParse]_vars

----------------------------------------------------------------------------
(* The parser alone, over replies with exactly one line per field *)

FieldAlphabet == {NOTES, " ", "%", "1"}

FieldValues == SeqsUpTo(FieldAlphabet, MaxValueLen)

FieldOrders ==
    {<<PROGRESS, COMPLETED_PARTS, MISSING_PARTS, NOTES>>,
     <<NOTES, MISSING_PARTS, COMPLETED_PARTS, PROGRESS>>}

FieldText(order, v) ==
    <<order[1]>> \o v[order[1]] \o <<NL, order[2]>> \o v[order[2]]
        \o <<NL, order[3]>> \o v[order[3]] \o <<NL, order[4]>> \o v[order[4]]

InitFields ==
    /\ Idle
    /\ \E order \in FieldOrders, v \in [Keywords -> FieldValues] :
           result_text = Some(FieldText(order, v))

SpecFields == InitFields /\ [][NextParse]_vars

----------------------------------------------------------------------------
(* Properties *)

Parsed == last.op = "parse"

ReplyLines == split(result_text[1])

Matching(lines, prefix) == {i \in 1..Len(lines) : startswith(lines[i], prefix)}

LastMatching(lines, prefix) ==
    CHOOSE i \in Matching(lines, prefix) : \A j \in Matching(lines, prefix) : j <= i

\* an optional minus sign and at least one digit, blanks around them allowed
LooksLikeInteger(s) ==
    LET t == strip(s)
    IN /\ t # <<>>
       /\ \A i \in 2..Len(t) : t[i] \in Digits
       /\ t[1] \in Digits \/ (t[1] = "-" /\ Len(t) >= 2)

\* C1: a failed analysis returns None, shows the error, and leaves
\* progress_result and current_image as they were before the Analyze action.
C1_FailedAnalysisKeepsSession ==
    [][(last'.op = "analyze" /\ last'.outcome \in FailureKinds)
        => /\ result' = None
           /\ error_shown'
           /\ progress_result' = progress_result
           /\ current_image' = current_image]_vars

C1_Witness ==
    /\ last.op = "analyze"
    /\ last.outcome = "api_error"
    /\ result = None
    /\ progress_result # None
    /\ current_image # None

\* C2: every stored progress_result has a progress in 0..100.
C2_ProgressInRange ==
    progress_result # None => progress_result[1].progress \in 0..100

\* C3: a stored progress_result was computed from the image now in
\* current_image.
C3_ResultIsOfCurrentImage ==
    progress_result # None => analysed_image = current_image

\* C4: with exactly one line per field, completed, missing and notes are the
\* text after the line's prefix, trimmed, and progress is the integer after
\* PROGRESS: with the percent sign removed.
C4_FieldsAreTextAfterPrefix ==
    (Parsed /\ \A kw \in Keywords : Cardinality(Matching(ReplyLines, kw)) = 1)
        => LET after(kw) == Tail(ReplyLines[LastMatching(ReplyLines, kw)])
               number == remove(after(PROGRESS), "%")
           IN /\ result[1].completed = strip(after(COMPLETED_PARTS))
              /\ result[1].missing = strip(after(MISSING_PARTS))
              /\ result[1].notes = strip(after(NOTES))
              /\ LooksLikeInteger(number) => result[1].progress = int(number).value

\* C5: every reply text is parsed to a result; a field with no line is empty,
\* progress is 0 with no PROGRESS: line and 0 when the value of the
\* PROGRESS: line is not an integer.
C5_MalformedReplyDegrades ==
    Parsed =>
        /\ result # None
        /\ Matching(ReplyLines, COMPLETED_PARTS) = {} => result[1].completed = <<>>
        /\ Matching(ReplyLines, MISSING_PARTS) = {} => result[1].missing = <<>>
        /\ Matching(ReplyLines, NOTES) = {} => result[1].notes = <<>>
        /\ Matching(ReplyLines, PROGRESS) = {} => result[1].progress = 0
        /\ (/\ Matching(ReplyLines, PROGRESS) # {}
            /\ ~LooksLikeInteger(
                   remove(Tail(ReplyLines[LastMatching(ReplyLines, PROGRESS)]), "%")))
               => result[1].progress = 0

\* C6: when several lines start with the same prefix, the field has the value
\* of the last of them, whatever the earlier ones hold.
C6_LastLineWins ==
    Parsed =>
        LET alone(kw) == ParseLine(InitialFields, ReplyLines[LastMatching(ReplyLines, kw)])
        IN /\ Matching(ReplyLines, PROGRESS) # {}
                => result[1].progress = alone(PROGRESS).progress
           /\ Matching(ReplyLines, COMPLETED_PARTS) # {}
                => result[1].completed = alone(COMPLETED_PARTS).completed
           /\ Matching(ReplyLines, MISSING_PARTS) # {}
                => result[1].missing = alone(MISSING_PARTS).missing
           /\ Matching(ReplyLines, NOTES) # {}
                => result[1].notes = alone(NOTES).notes

C6_Witness ==
    /\ Parsed
    /\ result_text = Some(<<PROGRESS, "1", NL, PROGRESS, "9">>)
    /\ result[1].progress = 9

\* C7: raw_response is the reply text unmodified, and the lines that match no
\* prefix change no structured field.
C7_RawResponseVerbatim ==
    Parsed =>
        LET fieldLines == SelectSeq(ReplyLines,
                                    LAMBDA l : \E kw \in Keywords : startswith(l, kw))
        IN /\ result[1].raw_response = result_text[1]
           /\ MakeResult(ParseLines(InitialFields, fieldLines), result_text[1])
                  = result[1]

C7_Witness ==
    /\ Parsed
    /\ result_text = Some(<<" ", "a", NL, NOTES, "a">>)
    /\ result[1].raw_response = <<" ", "a", NL, NOTES, "a">>
    /\ result[1].notes = <<"a">>

\* the content of claim C8 for the references refs and the current image cur
ContentAsSpecified(content, refs, cur) ==
    LET N == Len(refs)
    IN /\ Len(content) = 1 + 2 * N + 2
       /\ content[1].type = "text"
       /\ content[1].text = InstructionText
       /\ \A i \in 1..N :
            /\ content[2 * i].type = "text"
            /\ content[2 * i].text = ReferenceLabel(i)
            /\ content[2 * i + 1].type = "image_url"
            /\ content[2 * i + 1].detail = "high"
            /\ content[2 * i + 1].url
                  = <<"data:image/jpeg;base64,", encode_image_to_base64(refs[i])>>
       /\ content[2 * N + 2].type = "text"
       /\ content[2 * N + 2].text = CurrentLabel
       /\ content[2 * N + 3].type = "image_url"
       /\ content[2 * N + 3].detail = "high"
       /\ content[2 * N + 3].url
             = <<"data:image/jpeg;base64,", encode_image_to_base64(cur)>>

\* C8 as stated: every invocation issues exactly one request, with the
\* content instruction, (label i, reference i) in order, current label,
\* current image.
C8_ExactlyOneRequest ==
    last.op = "analyze"
        => /\ Len(sent) = 1
           /\ ContentAsSpecified(sent[1].content, call[1].reference_images,
                                 call[1].current_img)

\* C8 as amended: an invocation issues at most one request, none when it
\* raises before the call and one otherwise, and every request issued has the
\* content instruction, (label i, reference i) in order, current label,
\* current image.
C8_RequestContent ==
    last.op = "analyze"
        => /\ Len(sent) <= 1
           /\ (last.outcome = "encode_error") <=> (sent = <<>>)
           /\ \A k \in 1..Len(sent) :
                ContentAsSpecified(sent[k].content, call[1].reference_images,
                                   call[1].current_img)

C8_Witness ==
    /\ last.op = "analyze"
    /\ last.outcome = "reply"
    /\ Len(sent) = 1
    /\ Len(sent[1].content) = 9
    /\ call[1].reference_images[2] = UploadImage(2)

\* C9: the analysis is invoked only with a stored current image and exactly
\* three reference images; the files yield all three or nothing, and the
\* uploads yield references only when all three slots are filled.
C9_ThreeReferencesOrNoAnalysis ==
    /\ call # None
         => /\ Len(call[1].reference_images) = 3
            /\ current_image = Some(call[1].current_img)
    /\ sent # <<>> => call # None
    /\ reference_images # None
         => \/ /\ \A i \in Slots : ref_files[i]
               /\ reference_images[1] = <<FileImage(1), FileImage(2), FileImage(3)>>
            \/ /\ \A i \in Slots : uploads[i]
               /\ reference_images[1] = <<UploadImage(1), UploadImage(2), UploadImage(3)>>
    /\ AnalyzeOffered => Len(reference_images[1]) = 3

C9_Witness ==
    /\ call # None
    /\ sent # <<>>
    /\ ~ref_files[2]
    /\ Len(call[1].reference_images) = 3

\* C10: after Take New Photo or Reset Everything and the rerun, current_image
\* and progress_result are both None.
C10_ResetsClearSession ==
    last.op \in {"take_new", "reset"}
        => current_image = None /\ progress_result = None

====
